---- MODULE Spec2Model ----
(***************************************************************************)
(* Production tracking of core/views.py: the SeguimientoProduccionViewSet  *)
(* (timer control, worker assignment, and the generic update / destroy     *)
(* routes a ModelViewSet exposes) over the tables of core/models.py, with   *)
(* the requests of control-tiempo also taken one database operation at a   *)
(* time, and the CarritoViewSet (cart and checkout).                       *)
(*                                                                         *)
(* Time is counted in ticks of the wall clock; TicksPorSegundo ticks make  *)
(* one second and TicksPorDia ticks make one calendar day.                 *)
(***************************************************************************)
EXTENDS Integers, Sequences, FiniteSets, Bags, TLC

\* ------------------------------------------------------------------ bounds
MaxReloj == 2
MaxActividades == 3
TicksPorSegundo == 2
TicksPorDia == 2
MaxOrdenes == 2
MaxCantidad == 2

\* the clock reads of one request (lines 216 and 246) are at most this far apart
Retardos == {0, 1}

Seguimientos == {1}
Trabajadores == {1}
IdsTrabajador == {1, 2}
Usuarios == {"ana", "luis"}

\* ------------------------------------------------------- tables and fields
VARIABLES
    reloj,                  \* the wall clock (datetime.now / timezone.now)
    existentes,             \* primary keys of the SeguimientoProduccion rows
    seguimientos,           \* SeguimientoProduccion rows, by primary key
    trabajadores_asignados, \* the many-to-many table, by seguimiento
    actividades,            \* RegistroActividad rows in insertion order, by seguimiento
    asistencias,            \* RegistroAsistencia rows (a bag of rows)
    respuesta,              \* the Response of the last request
    peticiones,             \* the requests in progress, by connection
    ordenes,                \* Orden rows in insertion order (the index is the id)
    items,                  \* ItemOrden rows (a bag of rows)
    etapas,                 \* primary keys of the Etapa rows
    procesos,               \* primary keys of the Proceso rows
    subprocesos,            \* primary keys of the Subproceso rows
    subproceso_actual       \* SeguimientoProduccion.subproceso_actual, by seguimiento

vars == <<reloj, existentes, seguimientos, trabajadores_asignados, actividades,
          asistencias, respuesta, peticiones, ordenes, items, etapas, procesos,
          subprocesos, subproceso_actual>>

\* the tables of the production tracking, and those of the cart
tablas_produccion == <<existentes, seguimientos, trabajadores_asignados, actividades,
                       asistencias>>
carrito == <<ordenes, items>>
flujo == <<etapas, procesos, subprocesos, subproceso_actual>>

\* a nullable DateTimeField: <<>> is None, <<t>> is the instant t
NULL == <<>>
Instante(t) == <<t>>

EstadoSeguimiento == {"PENDIENTE", "EN_PROGRESO", "PAUSADO", "FINALIZADO"}
TipoEvento == {"INICIO", "PAUSA", "REANUDAR", "FIN"}

\* request.data['evento'] sent as the JSON null: a value that is not a string
EventoNulo == "<null>"

\* values of request.data['evento'] (the key absent reads as "")
EventosEntrada ==
    {"INICIO", "PAUSA", "REANUDAR", "FIN", "pausa", "", "DETENER", EventoNulo}

\* str.upper() on the values above
Upper(x) ==
    CASE x = "pausa" -> "PAUSA"
      [] OTHER -> x

\* values of request.data['trabajadores_ids']: a list of ids, or something else
ListasIds == {<<>>} \cup {<<a>> : a \in IdsTrabajador} \cup {<<2, 1>>}
EntradasTrabajadores ==
    {[es_lista |-> TRUE, ids |-> l] : l \in ListasIds}
        \cup {[es_lista |-> FALSE, ids |-> <<>>]}

SeguimientoNuevo ==
    [estado |-> "PENDIENTE", fecha_inicio |-> NULL, fecha_fin |-> NULL,
     duracion_total_segundos |-> 0]

ErrSinTrabajadores == "No hay trabajadores asignados a este subproceso."
ErrEventoNoValido == "Evento no valido. Use: INICIO, PAUSA, REANUDAR, FIN"
ErrYaIniciado == "El trabajo ya ha sido iniciado."
ErrNoEnProgreso == "El trabajo no esta en progreso."
ErrNoPausado == "El trabajo no esta pausado."
ErrNoFinalizable == "El trabajo no puede ser finalizado en su estado actual."
ErrNoLista == "Se espera una lista de IDs de trabajadores."
ErrNoEncontrado == "Not found."
ErrInterno == "AttributeError: 'NoneType' object has no attribute 'timestamp'"
ErrSinUpper == "AttributeError: 'NoneType' object has no attribute 'upper'"

\* the states an error message names
EstadosNombrados(err) ==
    CASE err = ErrNoEnProgreso -> {"EN_PROGRESO"}
      [] err = ErrNoPausado -> {"PAUSADO"}
      [] OTHER -> {}

Response(st, err) == [status |-> st, error |-> err]

\* the connections that carry a control-tiempo request one database operation at
\* a time, and what the handler holds in its local variables on each: pc is the
\* position in the handler ("hecho" once it has answered 200, the locals of that
\* request kept), seguimiento the model instance of get_object(), leido the row
\* as it was read, now and ultima_actividad the values of lines 216-217
Conexiones == {"c1", "c2"}
\* the workflow the tables start with: one Etapa, its two Proceso rows, and
\* Subproceso rows 1 and 2 of Proceso 1 and 3 of Proceso 2
Etapas == {1}
Procesos == {1, 2}
Subprocesos == {1, 2, 3}
\* Proceso.etapa and Subproceso.proceso
EtapaDe(p) == 1
ProcesoDe(sp) == IF sp = 3 THEN 2 ELSE 1

PeticionLibre ==
    [pc |-> "libre", pk |-> 0, evento |-> "", usuario |-> "",
     leido |-> SeguimientoNuevo, seguimiento |-> SeguimientoNuevo,
     now |-> 0, ultima_actividad |-> <<>>]

Init ==
    /\ reloj = 0
    /\ existentes = Seguimientos
    /\ seguimientos = [s \in Seguimientos |-> SeguimientoNuevo]
    /\ trabajadores_asignados = [s \in Seguimientos |-> {}]
    /\ actividades = [s \in Seguimientos |-> <<>>]
    /\ asistencias = EmptyBag
    /\ respuesta = Response(0, "")
    /\ peticiones = [p \in Conexiones |-> PeticionLibre]
    /\ ordenes = <<>>
    /\ items = EmptyBag
    /\ etapas = Etapas
    /\ procesos = Procesos
    /\ subprocesos = Subprocesos
    /\ subproceso_actual = [s \in existentes |-> 1]

\* ------------------------------------------------------------------- clock
\* time passes
Tick ==
    /\ reloj < MaxReloj
    /\ reloj' = reloj + 1
    /\ UNCHANGED <<existentes, seguimientos, trabajadores_asignados, actividades,
                   asistencias, respuesta, peticiones, carrito, flujo>>

\* the system time is set back (datetime.now is the wall clock, not a monotonic one)
AjusteReloj ==
    /\ \E t \in 0..MaxReloj :
          /\ t < reloj
          /\ reloj' = t
    /\ UNCHANGED <<existentes, seguimientos, trabajadores_asignados, actividades,
                   asistencias, respuesta, peticiones, carrito, flujo>>

\* ---------------------------------------------------------- timer control
\* an early "return Response({"error": ...}, status=...)": nothing is written
Rechazar(st, err) ==
    /\ respuesta' = Response(st, err)
    /\ UNCHANGED <<reloj, existentes, seguimientos, trabajadores_asignados,
                   actividades, asistencias, peticiones, carrito, flujo>>

\* variant: the check on the assigned workers is left out
SinTrabajadoresOmitido(s) == FALSE

\* not seguimiento.trabajadores_asignados.exists()
SinTrabajadores(s) == trabajadores_asignados[s] = {}

\* seguimiento.actividades.order_by('-timestamp').first(): <<>> is None, else the
\* row of greatest timestamp (rows of equal timestamp differ in nothing the
\* handler reads)
UltimaActividad(log) ==
    IF log = <<>>
    THEN <<>>
    ELSE LET filas == {log[i] : i \in 1..Len(log)}
         IN <<CHOOSE a \in filas : \A b \in filas : b.timestamp <= a.timestamp>>

\* int((now - ultima_actividad.timestamp).total_seconds()): int() rounds toward zero
Duracion(now, timestamp) ==
    IF now >= timestamp
    THEN (now - timestamp) \div TicksPorSegundo
    ELSE -((timestamp - now) \div TicksPorSegundo)

Aceptado(seg) == [status |-> 200, error |-> "", seguimiento |-> seg]
Error(st, err, seg) == [status |-> st, error |-> err, seguimiento |-> seg]

\* variant: INICIO is taken in any state
InicioSinGuarda(seg, now) ==
    [status |-> 200, error |-> "",
     seguimiento |-> [seg EXCEPT !.estado = "EN_PROGRESO", !.fecha_inicio = <<now>>]]

\* evento == 'INICIO'
Inicio(seg, now) ==
    IF seg.estado # "PENDIENTE"
    THEN Error(400, ErrYaIniciado, seg)
    ELSE Aceptado([seg EXCEPT !.estado = "EN_PROGRESO", !.fecha_inicio = Instante(now)])

\* variant: the PAUSA row is created first, so the elapsed time is taken against it
PausaTrasRegistrar(seg, now, ultima_actividad) ==
    IF seg.estado # "EN_PROGRESO"
    THEN [status |-> 400, error |-> ErrNoEnProgreso, seguimiento |-> seg]
    ELSE [status |-> 200, error |-> "",
          seguimiento |-> [seg EXCEPT !.duracion_total_segundos = @ + Duracion(now, now),
                                      !.estado = "PAUSADO"]]

\* variant: with no row in the log the elapsed time is taken as zero
PausaSinRegistroCero(seg, now, ultima_actividad) ==
    IF seg.estado # "EN_PROGRESO"
    THEN [status |-> 400, error |-> ErrNoEnProgreso, seguimiento |-> seg]
    ELSE [status |-> 200, error |-> "",
          seguimiento |-> [seg EXCEPT
              !.duracion_total_segundos =
                  @ + (IF ultima_actividad = <<>>
                       THEN 0
                       ELSE Duracion(now, ultima_actividad[1].timestamp)),
              !.estado = "PAUSADO"]]

\* evento == 'PAUSA'
Pausa(seg, now, ultima_actividad) ==
    IF seg.estado # "EN_PROGRESO"
    THEN Error(400, ErrNoEnProgreso, seg)
    ELSE IF ultima_actividad = <<>>
    THEN Error(500, ErrInterno, seg)
    ELSE Aceptado([seg EXCEPT
             !.duracion_total_segundos = @ + Duracion(now, ultima_actividad[1].timestamp),
             !.estado = "PAUSADO"])

\* evento == 'REANUDAR'
Reanudar(seg) ==
    IF seg.estado # "PAUSADO"
    THEN Error(400, ErrNoPausado, seg)
    ELSE Aceptado([seg EXCEPT !.estado = "EN_PROGRESO"])

\* variant: FIN closes an interval in PAUSADO too
FinSiempreSuma(seg, now, ultima_actividad) ==
    IF seg.estado \notin {"EN_PROGRESO", "PAUSADO"}
    THEN [status |-> 400, error |-> ErrNoFinalizable, seguimiento |-> seg]
    ELSE IF ultima_actividad = <<>>
    THEN [status |-> 500, error |-> ErrInterno, seguimiento |-> seg]
    ELSE [status |-> 200, error |-> "",
          seguimiento |-> [seg EXCEPT
              !.duracion_total_segundos = @ + Duracion(now, ultima_actividad[1].timestamp),
              !.estado = "FINALIZADO",
              !.fecha_fin = <<now>>]]

\* evento == 'FIN'
Fin(seg, now, ultima_actividad) ==
    IF seg.estado \notin {"EN_PROGRESO", "PAUSADO"}
    THEN Error(400, ErrNoFinalizable, seg)
    ELSE IF seg.estado = "EN_PROGRESO" /\ ultima_actividad = <<>>
    THEN Error(500, ErrInterno, seg)
    ELSE LET d == IF seg.estado = "EN_PROGRESO"
                  THEN Duracion(now, ultima_actividad[1].timestamp)
                  ELSE 0
         IN Aceptado([seg EXCEPT !.duracion_total_segundos = @ + d,
                                 !.estado = "FINALIZADO",
                                 !.fecha_fin = Instante(now)])

\* the if / elif chain on evento
Transicion(seg, evento, now, ultima_actividad) ==
    CASE evento = "INICIO" -> Inicio(seg, now)
      [] evento = "PAUSA" -> Pausa(seg, now, ultima_actividad)
      [] evento = "REANUDAR" -> Reanudar(seg)
      [] evento = "FIN" -> Fin(seg, now, ultima_actividad)

\* variant: the row is created without the acting user
RegistrarSinUsuario(log, evento, usuario, timestamp) ==
    Append(log, [tipo_evento |-> evento, timestamp |-> timestamp, usuario |-> ""])

\* RegistroActividad.objects.create(seguimiento=..., tipo_evento=evento, usuario=request.user);
\* timestamp is auto_now_add
RegistrarActividad(log, evento, usuario, timestamp) ==
    Append(log, [tipo_evento |-> evento, timestamp |-> timestamp, usuario |-> usuario])

controlar_tiempo(s, entrada, usuario) ==
    LET evento == Upper(entrada) IN
    IF s \notin existentes THEN Rechazar(404, ErrNoEncontrado)
    ELSE IF entrada = EventoNulo THEN Rechazar(500, ErrSinUpper)
    ELSE IF SinTrabajadores(s) THEN Rechazar(400, ErrSinTrabajadores)
    ELSE IF evento \notin TipoEvento THEN Rechazar(400, ErrEventoNoValido)
    ELSE LET now == reloj
             ultima_actividad == UltimaActividad(actividades[s])
             r == Transicion(seguimientos[s], evento, now, ultima_actividad)
         IN IF r.status # 200
            THEN Rechazar(r.status, r.error)
            ELSE /\ \E d \in Retardos :
                       /\ now + d <= MaxReloj
                       /\ reloj' = now + d
                       /\ actividades' = [actividades EXCEPT
                              ![s] = RegistrarActividad(@, evento, usuario, now + d)]
                 /\ seguimientos' = [seguimientos EXCEPT ![s] = r.seguimiento]
                 /\ respuesta' = Response(200, "")
                 /\ UNCHANGED <<existentes, trabajadores_asignados, asistencias,
                                peticiones, carrito, flujo>>

\* ------------------- control-tiempo, one database operation at a time
\* a request arrives on connection c. Lines 207-214: get_object(), the evento of
\* the request, the check on the workers and the check on the evento
recibir(c, s, entrada, usuario) ==
    LET evento == Upper(entrada)
        p == [PeticionLibre EXCEPT !.pk = s, !.evento = evento, !.usuario = usuario]
        rechazada(st, err) ==
            /\ peticiones' = [peticiones EXCEPT ![c] = PeticionLibre]
            /\ respuesta' = Response(st, err)
    IN /\ peticiones[c].pc \in {"libre", "hecho"}
       /\ IF s \notin existentes THEN rechazada(404, ErrNoEncontrado)
          ELSE IF entrada = EventoNulo THEN rechazada(500, ErrSinUpper)
          ELSE IF SinTrabajadores(s) THEN rechazada(400, ErrSinTrabajadores)
          ELSE IF evento \notin TipoEvento THEN rechazada(400, ErrEventoNoValido)
          ELSE /\ peticiones' = [peticiones EXCEPT ![c] =
                      [p EXCEPT !.pc = "leido", !.leido = seguimientos[s],
                                !.seguimiento = seguimientos[s]]]
               /\ respuesta' = respuesta
       /\ UNCHANGED <<reloj, tablas_produccion, carrito, flujo>>

\* lines 216-244: the clock, the most recent row of the log, and the transition
\* on the instance in memory
calcular(c) ==
    LET p == peticiones[c]
        now == reloj
        ultima_actividad == UltimaActividad(actividades[p.pk])
        r == Transicion(p.seguimiento, p.evento, now, ultima_actividad)
        q == [p EXCEPT !.now = now, !.ultima_actividad = ultima_actividad]
    IN /\ p.pc = "leido"
       /\ IF r.status # 200
          THEN /\ peticiones' = [peticiones EXCEPT ![c] = PeticionLibre]
               /\ respuesta' = Response(r.status, r.error)
          ELSE /\ peticiones' = [peticiones EXCEPT ![c] =
                      [q EXCEPT !.pc = "calculado", !.seguimiento = r.seguimiento]]
               /\ respuesta' = respuesta
       /\ UNCHANGED <<reloj, tablas_produccion, carrito, flujo>>

\* line 246: RegistroActividad.objects.create(...), stamped with the clock then
registrar(c) ==
    LET p == peticiones[c]
    IN /\ p.pc = "calculado"
       /\ actividades' = [actividades EXCEPT
              ![p.pk] = RegistrarActividad(@, p.evento, p.usuario, reloj)]
       /\ peticiones' = [peticiones EXCEPT ![c] = [p EXCEPT !.pc = "registrado"]]
       /\ UNCHANGED <<reloj, existentes, seguimientos, trabajadores_asignados, asistencias,
                      respuesta, carrito, flujo>>

\* variant: save() adds the elapsed seconds to the duration stored in the row
guardar_sumando(c) ==
    LET p == peticiones[c]
    IN /\ p.pc = "registrado"
       /\ seguimientos' = [seguimientos EXCEPT ![p.pk] =
              [p.seguimiento EXCEPT !.duracion_total_segundos =
                  seguimientos[p.pk].duracion_total_segundos
                      + (p.seguimiento.duracion_total_segundos
                             - p.leido.duracion_total_segundos)]]
       /\ peticiones' = [peticiones EXCEPT ![c] = [p EXCEPT !.pc = "hecho"]]
       /\ respuesta' = Response(200, "")
       /\ UNCHANGED <<reloj, existentes, trabajadores_asignados, actividades, asistencias,
                      carrito, flujo>>

\* lines 247-249: seguimiento.save() writes every field of the instance in memory
guardar(c) ==
    LET p == peticiones[c]
    IN /\ p.pc = "registrado"
       /\ seguimientos' = [seguimientos EXCEPT ![p.pk] = p.seguimiento]
       /\ peticiones' = [peticiones EXCEPT ![c] = [p EXCEPT !.pc = "hecho"]]
       /\ respuesta' = Response(200, "")
       /\ UNCHANGED <<reloj, existentes, trabajadores_asignados, actividades, asistencias,
                      carrito, flujo>>

\* ------------------------------------------------------- worker assignment
\* Trabajador.objects.filter(id__in=trabajadores_ids)
FiltrarTrabajadores(ids) == {w \in Trabajadores : \E i \in 1..Len(ids) : ids[i] = w}

\* datetime.now().date()
Fecha(t) == t \div TicksPorDia

\* variant: a row is created whether or not the day already has one
CrearSiempre(tabla, s, w, fecha) ==
    tabla (+) SetToBag({[seguimiento |-> s, trabajador |-> w, fecha |-> fecha,
                         asistio |-> TRUE]})

\* variant: the day's row is looked up by worker and date alone
UpdateOrCreateSinSeguimiento(tabla, s, w, fecha) ==
    LET halladas == {f \in BagToSet(tabla) : f.trabajador = w /\ f.fecha = fecha}
        fila == [seguimiento |-> s, trabajador |-> w, fecha |-> fecha, asistio |-> TRUE]
    IN [f \in BagToSet(tabla) \ halladas |-> tabla[f]] (+) SetToBag({fila})

\* RegistroAsistencia.objects.update_or_create(seguimiento=, trabajador=, fecha=,
\*                                             defaults={'asistio': True})
UpdateOrCreate(tabla, s, w, fecha) ==
    LET halladas == {f \in BagToSet(tabla) :
                        f.seguimiento = s /\ f.trabajador = w /\ f.fecha = fecha}
        fila == [seguimiento |-> s, trabajador |-> w, fecha |-> fecha, asistio |-> TRUE]
    IN IF halladas = {}
       THEN tabla (+) SetToBag({fila})
       ELSE LET resto == [f \in BagToSet(tabla) \ halladas |-> tabla[f]]
            IN resto (+) SetToBag({fila})

\* for trabajador in trabajadores: update_or_create(...)
RECURSIVE RegistrarAsistencias(_, _, _, _)
RegistrarAsistencias(tabla, s, ws, fecha) ==
    IF ws = {}
    THEN tabla
    ELSE LET w == CHOOSE x \in ws : \A y \in ws : x <= y
         IN RegistrarAsistencias(UpdateOrCreate(tabla, s, w, fecha), s, ws \ {w}, fecha)

\* variant: the set is replaced before the input is validated
asignar_valida_tarde(s, entrada) ==
    LET trabajadores == FiltrarTrabajadores(entrada.ids)
    IN /\ s \in existentes
       /\ trabajadores_asignados' = [trabajadores_asignados EXCEPT ![s] = trabajadores]
       /\ IF entrada.es_lista
          THEN /\ asistencias' = RegistrarAsistencias(asistencias, s, trabajadores, Fecha(reloj))
               /\ respuesta' = Response(200, "")
          ELSE /\ asistencias' = asistencias
               /\ respuesta' = Response(400, ErrNoLista)
       /\ UNCHANGED <<reloj, existentes, seguimientos, actividades, peticiones, carrito, flujo>>

\* variant: the workers of the list are added to those already assigned
asignar_aditivo(s, entrada) ==
    IF s \notin existentes THEN Rechazar(404, ErrNoEncontrado)
    ELSE IF ~entrada.es_lista THEN Rechazar(400, ErrNoLista)
    ELSE LET trabajadores == FiltrarTrabajadores(entrada.ids)
         IN /\ trabajadores_asignados' =
                   [trabajadores_asignados EXCEPT ![s] = @ \cup trabajadores]
            /\ asistencias' = RegistrarAsistencias(asistencias, s, trabajadores, Fecha(reloj))
            /\ respuesta' = Response(200, "")
            /\ UNCHANGED <<reloj, existentes, seguimientos, actividades, peticiones, carrito, flujo>>

\* variant: the shape of trabajadores_ids is not checked
asignar_sin_validar(s, entrada) ==
    IF s \notin existentes THEN Rechazar(404, ErrNoEncontrado)
    ELSE LET trabajadores == FiltrarTrabajadores(entrada.ids)
         IN /\ trabajadores_asignados' = [trabajadores_asignados EXCEPT ![s] = trabajadores]
            /\ asistencias' = RegistrarAsistencias(asistencias, s, trabajadores, Fecha(reloj))
            /\ respuesta' = Response(200, "")
            /\ UNCHANGED <<reloj, existentes, seguimientos, actividades, peticiones, carrito, flujo>>

\* variant: the attendance rows of the workers taken away are deleted
asignar_retira_asistencias(s, entrada) ==
    IF s \notin existentes THEN Rechazar(404, ErrNoEncontrado)
    ELSE IF ~entrada.es_lista THEN Rechazar(400, ErrNoLista)
    ELSE LET trabajadores == FiltrarTrabajadores(entrada.ids)
             quedan == [f \in {g \in BagToSet(asistencias) :
                                  g.seguimiento = s => g.trabajador \in trabajadores}
                           |-> asistencias[f]]
         IN /\ trabajadores_asignados' = [trabajadores_asignados EXCEPT ![s] = trabajadores]
            /\ asistencias' = RegistrarAsistencias(quedan, s, trabajadores, Fecha(reloj))
            /\ respuesta' = Response(200, "")
            /\ UNCHANGED <<reloj, existentes, seguimientos, actividades, peticiones, carrito, flujo>>

asignar_trabajadores(s, entrada) ==
    IF s \notin existentes THEN Rechazar(404, ErrNoEncontrado)
    ELSE IF ~entrada.es_lista THEN Rechazar(400, ErrNoLista)
    ELSE LET trabajadores == FiltrarTrabajadores(entrada.ids)
         IN /\ trabajadores_asignados' = [trabajadores_asignados EXCEPT ![s] = trabajadores]
            /\ asistencias' = RegistrarAsistencias(asistencias, s, trabajadores, Fecha(reloj))
            /\ respuesta' = Response(200, "")
            /\ UNCHANGED <<reloj, existentes, seguimientos, actividades, peticiones, carrito, flujo>>

\* ------------------------------------- the generic routes of the ModelViewSet
\* the writable fields of SeguimientoProduccionSerializer and values a client sends
CamposEditables ==
    {"estado", "fecha_inicio", "fecha_fin", "duracion_total_segundos"}
ValoresCampo(campo) ==
    CASE campo = "estado" -> EstadoSeguimiento
      [] campo = "duracion_total_segundos" -> {0}
      [] OTHER -> {NULL}

\* PATCH /seguimiento-produccion/{id}/ (PUT takes the same fields)
partial_update(s, campo, valor) ==
    IF s \notin existentes THEN Rechazar(404, ErrNoEncontrado)
    ELSE /\ seguimientos' = [seguimientos EXCEPT ![s] = [@ EXCEPT ![campo] = valor]]
         /\ respuesta' = Response(200, "")
         /\ UNCHANGED <<reloj, existentes, trabajadores_asignados, actividades, asistencias,
                        peticiones, carrito, flujo>>

\* DELETE /seguimiento-produccion/{id}/: the row goes, and with it (on_delete=CASCADE)
\* its RegistroActividad and RegistroAsistencia rows and its many-to-many rows
destroy(s) ==
    IF s \notin existentes THEN Rechazar(404, ErrNoEncontrado)
    ELSE /\ existentes' = existentes \ {s}
         /\ seguimientos' = [seguimientos EXCEPT ![s] = SeguimientoNuevo]
         /\ trabajadores_asignados' = [trabajadores_asignados EXCEPT ![s] = {}]
         /\ actividades' = [actividades EXCEPT ![s] = <<>>]
         /\ asistencias' = [f \in {g \in BagToSet(asistencias) : g.seguimiento # s}
                                |-> asistencias[f]]
         /\ respuesta' = Response(204, "")
         /\ UNCHANGED <<reloj, peticiones, carrito, flujo>>

\* ------------------------------------------- the workflow in the admin site
ErrProtegido == "ProtectedError"

\* the SeguimientoProduccion rows that refer to one of the Subproceso rows sps
Referencian(sps) == {s \in existentes : subproceso_actual[s] \in sps}

\* variant: subproceso_actual does not protect the Subproceso row
delete_sin_proteger(es, ps, sps) ==
    /\ etapas' = etapas \ es
    /\ procesos' = procesos \ ps
    /\ subprocesos' = subprocesos \ sps
    /\ subproceso_actual' = subproceso_actual
    /\ respuesta' = Response(302, "")
    /\ UNCHANGED <<reloj, tablas_produccion, peticiones, carrito>>

\* Model.delete() of rows that collect the Etapa rows es, the Proceso rows ps and
\* the Subproceso rows sps: on_delete=PROTECT of subproceso_actual refuses the
\* whole delete while a SeguimientoProduccion row refers to one of sps
delete(es, ps, sps) ==
    IF Referencian(sps) # {}
    THEN /\ respuesta' = Response(200, ErrProtegido)
         /\ UNCHANGED <<reloj, tablas_produccion, peticiones, carrito, flujo>>
    ELSE /\ etapas' = etapas \ es
         /\ procesos' = procesos \ ps
         /\ subprocesos' = subprocesos \ sps
         /\ subproceso_actual' = subproceso_actual
         /\ respuesta' = Response(302, "")
         /\ UNCHANGED <<reloj, tablas_produccion, peticiones, carrito>>

\* the delete of a Subproceso row
delete_subproceso(sp) ==
    IF sp \notin subprocesos THEN Rechazar(404, ErrNoEncontrado)
    ELSE delete({}, {}, {sp})

\* the delete of a Proceso row: Subproceso.proceso is on_delete=CASCADE
delete_proceso(p) ==
    IF p \notin procesos THEN Rechazar(404, ErrNoEncontrado)
    ELSE delete({}, {p}, {sp \in subprocesos : ProcesoDe(sp) = p})

\* the delete of an Etapa row: Proceso.etapa is on_delete=CASCADE
delete_etapa(e) ==
    IF e \notin etapas THEN Rechazar(404, ErrNoEncontrado)
    ELSE LET ps == {p \in procesos : EtapaDe(p) = e}
         IN delete({e}, ps, {sp \in subprocesos : ProcesoDe(sp) \in ps})

\* the change form of a SeguimientoProduccion row: subproceso_actual is chosen
\* among the Subproceso rows there are
cambiar_subproceso(s, sp) ==
    IF s \notin existentes THEN Rechazar(404, ErrNoEncontrado)
    ELSE IF sp \notin subprocesos THEN Rechazar(200, ErrNoEncontrado)
    ELSE /\ subproceso_actual' = [subproceso_actual EXCEPT ![s] = sp]
         /\ respuesta' = Response(302, "")
         /\ UNCHANGED <<reloj, tablas_produccion, peticiones, carrito, etapas, procesos,
                        subprocesos>>

\* ------------------------------------------------------ cart and checkout
\* Producto rows, and the values of request.data['producto_id'] (0: absent)
Productos == {1}
IdsProducto == {0, 1, 2}

\* values of int(request.data['cantidad'])
Cantidades == (0 - 1)..MaxCantidad

\* values of request.data['lote']: the key absent, null, or a lot code
EntradasLote ==
    {[presente |-> FALSE, valor |-> NULL],
     [presente |-> TRUE, valor |-> NULL],
     [presente |-> TRUE, valor |-> <<"L-7">>]}

ErrItemInvalido == "ID de producto y cantidad valida son requeridos."
ErrCarritoVacio == "El carrito esta vacio."
ErrVariosCarritos == "MultipleObjectsReturned"

\* f"ORD-{uuid.uuid4().hex[:8].upper()}": one code per row
CodigoOrden(id) ==
    CASE id = 1 -> "ORD-0A1B2C3D"
      [] id = 2 -> "ORD-4E5F6071"
      [] id = 3 -> "ORD-8293A4B5"
      [] OTHER -> "ORD-C6D7E8F9"

\* f"LOTE-{cart.codigo_orden}"
LotePorDefecto(codigo) ==
    CASE codigo = "ORD-0A1B2C3D" -> "LOTE-ORD-0A1B2C3D"
      [] codigo = "ORD-4E5F6071" -> "LOTE-ORD-4E5F6071"
      [] codigo = "ORD-8293A4B5" -> "LOTE-ORD-8293A4B5"
      [] OTHER -> "LOTE-ORD-C6D7E8F9"

\* Orden(usuario=user, estado=CARRITO) as save() stores it
OrdenNueva(usuario, id) ==
    [usuario |-> usuario, estado |-> "CARRITO", lote_asignado |-> NULL,
     codigo_orden |-> CodigoOrden(id)]

\* the ids of the orders of a user that are carts
CarritosDe(tabla, usuario) ==
    {i \in 1..Len(tabla) : tabla[i].usuario = usuario /\ tabla[i].estado = "CARRITO"}

\* variant: the cart is the first order of the user, whatever its state
get_cart_sin_estado(tabla, usuario) ==
    LET propias == {i \in 1..Len(tabla) : tabla[i].usuario = usuario}
    IN IF propias = {}
       THEN [ordenes |-> Append(tabla, OrdenNueva(usuario, Len(tabla) + 1)),
             cart |-> Len(tabla) + 1]
       ELSE [ordenes |-> tabla, cart |-> CHOOSE i \in propias : \A j \in propias : i <= j]

\* Orden.objects.get_or_create(usuario=user, estado=CARRITO): the table after the
\* call and the id of the cart (0: get() raised MultipleObjectsReturned)
get_cart(tabla, usuario) ==
    LET carritos == CarritosDe(tabla, usuario)
    IN IF carritos = {}
       THEN [ordenes |-> Append(tabla, OrdenNueva(usuario, Len(tabla) + 1)),
             cart |-> Len(tabla) + 1]
       ELSE IF Cardinality(carritos) > 1
       THEN [ordenes |-> tabla, cart |-> 0]
       ELSE [ordenes |-> tabla, cart |-> CHOOSE i \in carritos : TRUE]

\* GET /carrito/ver/ on connection c, one database operation at a time. The get()
\* of get_or_create: a cart found ends the request, none found leaves the request
\* about to create one
buscar_carrito(c, usuario) ==
    LET carritos == CarritosDe(ordenes, usuario)
    IN /\ peticiones[c].pc = "libre"
       /\ IF carritos = {}
          THEN /\ peticiones' = [peticiones EXCEPT ![c] =
                      [PeticionLibre EXCEPT !.pc = "sin_carrito", !.usuario = usuario]]
               /\ respuesta' = respuesta
          ELSE /\ peticiones' = peticiones
               /\ respuesta' = IF Cardinality(carritos) > 1
                                THEN Response(500, ErrVariosCarritos)
                                ELSE Response(200, "")
       /\ UNCHANGED <<reloj, tablas_produccion, carrito, flujo>>

\* the create() of get_or_create, after a get() that found no cart, and the answer
crear_carrito(c) ==
    LET p == peticiones[c]
    IN /\ p.pc = "sin_carrito"
       /\ ordenes' = Append(ordenes, OrdenNueva(p.usuario, Len(ordenes) + 1))
       /\ peticiones' = [peticiones EXCEPT ![c] = PeticionLibre]
       /\ respuesta' = Response(200, "")
       /\ UNCHANGED <<reloj, tablas_produccion, items, flujo>>

\* the ItemOrden rows of an order and of a product in it
ItemsDe(tabla, o) == {f \in BagToSet(tabla) : f.orden = o}
ItemsDeProducto(tabla, o, producto) ==
    {f \in BagToSet(tabla) : f.orden = o /\ f.producto = producto}

\* the table without the rows `filas`
SinFilas(tabla, filas) == [f \in BagToSet(tabla) \ filas |-> tabla[f]]

\* the answer of a cart route, what is left of the request aside
ResponderCarrito(st, err) ==
    /\ respuesta' = Response(st, err)
    /\ UNCHANGED <<reloj, tablas_produccion, peticiones, flujo>>

\* GET /carrito/ver/
ver_carrito(usuario) ==
    LET g == get_cart(ordenes, usuario)
    IN IF g.cart = 0
       THEN ResponderCarrito(500, ErrVariosCarritos) /\ UNCHANGED carrito
       ELSE /\ ordenes' = g.ordenes
            /\ items' = items
            /\ ResponderCarrito(200, "")

\* variant: every add inserts a row of its own
agregar_item_sin_buscar(usuario, producto_id, cantidad) ==
    IF producto_id = 0 \/ cantidad <= 0
    THEN ResponderCarrito(400, ErrItemInvalido) /\ UNCHANGED carrito
    ELSE LET g == get_cart(ordenes, usuario)
         IN IF g.cart = 0
            THEN ResponderCarrito(500, ErrVariosCarritos) /\ UNCHANGED carrito
            ELSE IF producto_id \notin Productos
            THEN /\ ordenes' = g.ordenes
                 /\ items' = items
                 /\ ResponderCarrito(404, ErrNoEncontrado)
            ELSE /\ ordenes' = g.ordenes
                 /\ items' = items (+) SetToBag({[orden |-> g.cart, producto |-> producto_id,
                                                 cantidad |-> cantidad]})
                 /\ ResponderCarrito(201, "")

\* POST /carrito/agregar/
agregar_item(usuario, producto_id, cantidad) ==
    IF producto_id = 0 \/ cantidad <= 0
    THEN ResponderCarrito(400, ErrItemInvalido) /\ UNCHANGED carrito
    ELSE LET g == get_cart(ordenes, usuario)
             halladas == ItemsDeProducto(items, g.cart, producto_id)
         IN IF g.cart = 0
            THEN ResponderCarrito(500, ErrVariosCarritos) /\ UNCHANGED carrito
            ELSE IF producto_id \notin Productos
            THEN /\ ordenes' = g.ordenes
                 /\ items' = items
                 /\ ResponderCarrito(404, ErrNoEncontrado)
            ELSE IF halladas = {}
            THEN /\ ordenes' = g.ordenes
                 /\ items' = items (+) SetToBag({[orden |-> g.cart, producto |-> producto_id,
                                                 cantidad |-> cantidad]})
                 /\ ResponderCarrito(201, "")
            ELSE IF Cardinality(halladas) > 1 \/ \E f \in halladas : items[f] > 1
            THEN /\ ordenes' = g.ordenes
                 /\ items' = items
                 /\ ResponderCarrito(500, ErrVariosCarritos)
            ELSE LET item == CHOOSE f \in halladas : TRUE
                 IN /\ ordenes' = g.ordenes
                    /\ items' = SinFilas(items, {item})
                                   (+) SetToBag({[item EXCEPT !.cantidad = @ + cantidad]})
                    /\ ResponderCarrito(201, "")

\* PATCH /carrito/{pk}/actualizar/: pk is the row of producto in the order o
actualizar_item(usuario, o, producto, cantidad) ==
    LET g == get_cart(ordenes, usuario)
        halladas == IF o = g.cart THEN ItemsDeProducto(items, o, producto) ELSE {}
    IN IF g.cart = 0
       THEN ResponderCarrito(500, ErrVariosCarritos) /\ UNCHANGED carrito
       ELSE IF halladas = {}
       THEN /\ ordenes' = g.ordenes
            /\ items' = items
            /\ ResponderCarrito(404, ErrNoEncontrado)
       ELSE LET item == CHOOSE f \in halladas : TRUE
            IN /\ ordenes' = g.ordenes
               /\ items' = IF cantidad > 0
                            THEN SinFilas(items, {item})
                                     (+) SetToBag({[item EXCEPT !.cantidad = cantidad]})
                            ELSE SinFilas(items, {item})
               /\ ResponderCarrito(200, "")

\* DELETE /carrito/{pk}/eliminar/
eliminar_item(usuario, o, producto) ==
    LET g == get_cart(ordenes, usuario)
        halladas == IF o = g.cart THEN ItemsDeProducto(items, o, producto) ELSE {}
    IN IF g.cart = 0
       THEN ResponderCarrito(500, ErrVariosCarritos) /\ UNCHANGED carrito
       ELSE IF halladas = {}
       THEN /\ ordenes' = g.ordenes
            /\ items' = items
            /\ ResponderCarrito(404, ErrNoEncontrado)
       ELSE /\ ordenes' = g.ordenes
            /\ items' = SinFilas(items, {CHOOSE f \in halladas : TRUE})
            /\ ResponderCarrito(204, "")

\* POST /carrito/procesar/
procesar_pedido(usuario, lote) ==
    LET g == get_cart(ordenes, usuario)
    IN IF g.cart = 0
       THEN ResponderCarrito(500, ErrVariosCarritos) /\ UNCHANGED carrito
       ELSE IF ItemsDe(items, g.cart) = {}
       THEN /\ ordenes' = g.ordenes
            /\ items' = items
            /\ ResponderCarrito(400, ErrCarritoVacio)
       ELSE /\ ordenes' = [g.ordenes EXCEPT ![g.cart] =
                   [@ EXCEPT !.estado = "PROCESADA",
                             !.lote_asignado =
                                 IF lote.presente
                                 THEN lote.valor
                                 ELSE <<LotePorDefecto(g.ordenes[g.cart].codigo_orden)>>]]
            /\ items' = items
            /\ ResponderCarrito(200, "")

\* --------------------------------------------------------- specifications
\* a request to control-tiempo from one of `usuarios`, while the log of the
\* entity holds fewer than `tope` rows
ControlarTiempo(usuarios, tope) ==
    \E s \in Seguimientos, e \in EventosEntrada, u \in usuarios :
        /\ Len(actividades[s]) < tope
        /\ controlar_tiempo(s, e, u)
AsignarTrabajadores ==
    \E s \in Seguimientos, l \in EntradasTrabajadores : asignar_trabajadores(s, l)
PartialUpdate ==
    \E s \in Seguimientos, c \in CamposEditables :
        \E v \in ValoresCampo(c) : partial_update(s, c, v)
Destroy == \E s \in Seguimientos : destroy(s)

\* the tracking workflow: one operator at the terminal, the wall clock running
Next ==
    \/ Tick
    \/ AjusteReloj
    \/ ControlarTiempo({"ana"}, MaxActividades)
    \/ AsignarTrabajadores

Spec == Init /\ [][Next]_vars

\* every route of the SeguimientoProduccionViewSet, the clock moved by the
\* requests alone
NextApi ==
    \/ ControlarTiempo({"ana"}, MaxActividades)
    \/ AsignarTrabajadores
    \/ PartialUpdate
    \/ Destroy

SpecApi == Init /\ [][NextApi]_vars

\* several users at the terminal, the clock moved by the requests alone
NextUsuarios ==
    \/ ControlarTiempo(Usuarios, MaxActividades)
    \/ AsignarTrabajadores

SpecUsuarios == Init /\ [][NextUsuarios]_vars

\* the tracking workflow with one more row allowed in the log
NextLargo ==
    \/ Tick
    \/ AjusteReloj
    \/ ControlarTiempo({"ana"}, MaxActividades + 1)
    \/ AsignarTrabajadores

SpecLargo == Init /\ [][NextLargo]_vars

\* requests of control-tiempo that overlap: two connections, each request taken
\* one database operation at a time, the wall clock running forward
Recibir ==
    \E c \in Conexiones, s \in Seguimientos, e \in TipoEvento \cup {"DETENER"} :
        /\ Len(actividades[s]) < MaxActividades - 1
        /\ recibir(c, s, e, "ana")
Calcular == \E c \in Conexiones : calcular(c)
Registrar == \E c \in Conexiones : registrar(c)
Guardar == \E c \in Conexiones : guardar(c)

AsignarLista ==
    \E s \in Seguimientos, a \in Trabajadores :
        asignar_trabajadores(s, [es_lista |-> TRUE, ids |-> <<a>>])

NextConcurrente ==
    \/ Tick
    \/ AsignarLista
    \/ Recibir
    \/ Calcular
    \/ Registrar
    \/ Guardar

SpecConcurrente == Init /\ [][NextConcurrente]_vars

\* two tracking entities side by side: the operations of the requests on one
\* fall between whole requests on the other, assignments on both; the clock is
\* moved by the requests alone
DosSeguimientos == {1, 2}

InitDos ==
    /\ reloj = 0
    /\ existentes = DosSeguimientos
    /\ seguimientos = [s \in DosSeguimientos |-> SeguimientoNuevo]
    /\ trabajadores_asignados = [s \in DosSeguimientos |-> {}]
    /\ actividades = [s \in DosSeguimientos |-> <<>>]
    /\ asistencias = EmptyBag
    /\ respuesta = Response(0, "")
    /\ peticiones = [p \in Conexiones |-> PeticionLibre]
    /\ ordenes = <<>>
    /\ items = EmptyBag
    /\ etapas = Etapas
    /\ procesos = Procesos
    /\ subprocesos = Subprocesos
    /\ subproceso_actual = [s \in existentes |-> 1]

\* entity 2 is worked by whole requests
ControlarTiempoDos ==
    \E e \in {"INICIO", "PAUSA", "FIN"} :
        /\ Len(actividades[2]) < MaxActividades - 1
        /\ controlar_tiempo(2, e, "ana")
AsignarDos ==
    \E s \in DosSeguimientos, l \in {<<>>, <<1>>} :
        asignar_trabajadores(s, [es_lista |-> TRUE, ids |-> l])
\* entity 1 is worked on connection c1, one database operation at a time
RecibirDos ==
    \E e \in {"INICIO", "PAUSA", "FIN"} :
        /\ Len(actividades[1]) < MaxActividades - 1
        /\ recibir("c1", 1, e, "ana")

NextDos ==
    \/ ControlarTiempoDos
    \/ AsignarDos
    \/ RecibirDos
    \/ Calcular
    \/ Registrar
    \/ Guardar

SpecDos == InitDos /\ [][NextDos]_vars

\* the cart of each user: a request creates an order only while the table holds
\* fewer than MaxOrdenes, and a row grows up to MaxCantidad
HayLugar(usuario) ==
    Len(ordenes) < MaxOrdenes \/ CarritosDe(ordenes, usuario) # {}
VerCarrito == \E u \in Usuarios : HayLugar(u) /\ ver_carrito(u)
AgregarItem ==
    \E u \in Usuarios, p \in IdsProducto, n \in Cantidades :
        /\ HayLugar(u)
        /\ \A c \in CarritosDe(ordenes, u) :
               \A f \in ItemsDeProducto(items, c, p) : f.cantidad + n <= MaxCantidad
        /\ agregar_item(u, p, n)
ActualizarItem ==
    \E u \in Usuarios, o \in 1..MaxOrdenes, p \in Productos, n \in Cantidades :
        HayLugar(u) /\ actualizar_item(u, o, p, n)
EliminarItem ==
    \E u \in Usuarios, o \in 1..MaxOrdenes, p \in Productos :
        HayLugar(u) /\ eliminar_item(u, o, p)
ProcesarPedido ==
    \E u \in Usuarios, l \in EntradasLote : HayLugar(u) /\ procesar_pedido(u, l)

NextCarrito ==
    \/ VerCarrito
    \/ AgregarItem
    \/ ActualizarItem
    \/ EliminarItem
    \/ ProcesarPedido

SpecCarrito == Init /\ [][NextCarrito]_vars

\* the workflow is edited while the entity is assigned, timed and deleted
DeleteSubproceso == \E sp \in Subprocesos : delete_subproceso(sp)
DeleteProceso == \E p \in Procesos : delete_proceso(p)
DeleteEtapa == \E e \in Etapas : delete_etapa(e)
CambiarSubproceso ==
    \E s \in Seguimientos, sp \in Subprocesos : cambiar_subproceso(s, sp)
ControlarTiempoFlujo ==
    \E s \in Seguimientos, e \in {"INICIO", "PAUSA", "FIN"} :
        /\ Len(actividades[s]) < MaxActividades - 1
        /\ controlar_tiempo(s, e, "ana")

NextFlujo ==
    \/ DeleteSubproceso
    \/ DeleteProceso
    \/ DeleteEtapa
    \/ CambiarSubproceso
    \/ AsignarLista
    \/ ControlarTiempoFlujo
    \/ Destroy

SpecFlujo == Init /\ [][NextFlujo]_vars

\* cart requests of which some are between the lookup of the cart and its
\* creation: the orders to come count against MaxOrdenes
PorCrear == Cardinality({c \in Conexiones : peticiones[c].pc = "sin_carrito"})
CabeOtra == PorCrear = 0 \/ Len(ordenes) + PorCrear < MaxOrdenes
BuscarCarrito ==
    \E c \in Conexiones, u \in Usuarios :
        /\ CarritosDe(ordenes, u) # {} \/ Len(ordenes) + PorCrear < MaxOrdenes
        /\ buscar_carrito(c, u)
CrearCarrito == \E c \in Conexiones : crear_carrito(c)

NextCarritoConcurrente ==
    \/ BuscarCarrito
    \/ CrearCarrito
    \/ CabeOtra /\ AgregarItem
    \/ CabeOtra /\ ActualizarItem
    \/ CabeOtra /\ EliminarItem
    \/ CabeOtra /\ ProcesarPedido

SpecCarritoConcurrente == Init /\ [][NextCarritoConcurrente]_vars

\* ------------------------------------------------------------ properties
\* a span of d ticks in whole seconds, the fraction dropped
SegundosEnteros(d) ==
    CHOOSE k \in (0 - MaxReloj)..MaxReloj :
        IF d >= 0
        THEN k >= 0 /\ k * TicksPorSegundo <= d /\ d < (k + 1) * TicksPorSegundo
        ELSE k <= 0 /\ d <= k * TicksPorSegundo /\ (k - 1) * TicksPorSegundo < d

\* the transition table of the timer: <<event, state before, state after>>
TablaDeTransiciones ==
    {<<"INICIO", "PENDIENTE", "EN_PROGRESO">>,
     <<"PAUSA", "EN_PROGRESO", "PAUSADO">>,
     <<"REANUDAR", "PAUSADO", "EN_PROGRESO">>,
     <<"FIN", "EN_PROGRESO", "FINALIZADO">>,
     <<"FIN", "PAUSADO", "FINALIZADO">>}

\* the timestamps that are the greatest of a log
MasRecientes(log) ==
    {log[i].timestamp : i \in {j \in 1..Len(log) :
                                  \A k \in 1..Len(log) : log[k].timestamp <= log[j].timestamp}}

TablasDelSeguimiento == <<existentes, seguimientos, trabajadores_asignados, actividades,
                          asistencias>>

\* C1: an accepted timer event goes from a state of the transition table to the
\* table's target state; an event issued in a state the table does not list for it
\* is rejected and changes neither state nor duration; a second INICIO right after
\* an accepted one is rejected with "El trabajo ya ha sido iniciado." and leaves
\* the duration as it was.
C1_TablaDeTransiciones ==
    [][\A s \in Seguimientos, e \in EventosEntrada, u \in Usuarios :
          controlar_tiempo(s, e, u) =>
              LET ev == Upper(e)
                  antes == seguimientos[s]
                  despues == seguimientos'[s]
                  log == actividades[s]
              IN /\ respuesta'.status = 200 =>
                        <<ev, antes.estado, despues.estado>> \in TablaDeTransiciones
                 /\ (ev \in TipoEvento
                        /\ \A h \in EstadoSeguimiento :
                              <<ev, antes.estado, h>> \notin TablaDeTransiciones) =>
                        /\ respuesta'.status # 200
                        /\ despues = antes
                 /\ (/\ ev = "INICIO"
                     /\ respuesta = Response(200, "")
                     /\ log # <<>>
                     /\ log[Len(log)].tipo_evento = "INICIO"
                     /\ trabajadores_asignados[s] # {}) =>
                        /\ respuesta' = Response(400, ErrYaIniciado)
                        /\ despues.duracion_total_segundos = antes.duracion_total_segundos
                        /\ despues.estado = antes.estado
      ]_vars

\* C1 witness: a second INICIO has just been rejected on a running entity
C1_SegundoInicioRechazado ==
    /\ respuesta = Response(400, ErrYaIniciado)
    /\ seguimientos[1].estado = "EN_PROGRESO"
    /\ Len(actividades[1]) = 1
    /\ actividades[1][1].tipo_evento = "INICIO"

\* C2: an accepted PAUSA adds the whole seconds between the request's time and the
\* most recent timestamp of the log as it was before the request, and sets PAUSADO;
\* an accepted REANUDAR sets EN_PROGRESO and leaves the duration as it was.
C2_PausaYReanudar ==
    [][\A s \in Seguimientos, e \in EventosEntrada, u \in Usuarios :
          (controlar_tiempo(s, e, u) /\ respuesta'.status = 200) =>
              LET ev == Upper(e)
                  antes == seguimientos[s]
                  despues == seguimientos'[s]
              IN /\ ev = "PAUSA" =>
                        /\ despues.estado = "PAUSADO"
                        /\ \E t \in MasRecientes(actividades[s]) :
                              despues.duracion_total_segundos =
                                  antes.duracion_total_segundos + SegundosEnteros(reloj - t)
                 /\ ev = "REANUDAR" =>
                        /\ despues.estado = "EN_PROGRESO"
                        /\ despues.duracion_total_segundos = antes.duracion_total_segundos
      ]_vars

\* C2 witness: INICIO logged at tick 0, PAUSA requested one second later
C2_PausaAcumulada ==
    /\ respuesta = Response(200, "")
    /\ seguimientos[1].estado = "PAUSADO"
    /\ seguimientos[1].duracion_total_segundos = 1
    /\ Len(actividades[1]) = 2
    /\ actividades[1][1].timestamp = 0
    /\ actividades[1][2].tipo_evento = "PAUSA"

\* C3: an accepted FIN from PAUSADO leaves the duration as it was, one from
\* EN_PROGRESO adds the whole seconds since the most recent timestamp of the log;
\* both set FINALIZADO and fecha_fin to the request's time.
C3_Fin ==
    [][\A s \in Seguimientos, e \in EventosEntrada, u \in Usuarios :
          (controlar_tiempo(s, e, u) /\ respuesta'.status = 200 /\ Upper(e) = "FIN") =>
              LET antes == seguimientos[s]
                  despues == seguimientos'[s]
              IN /\ despues.estado = "FINALIZADO"
                 /\ despues.fecha_fin = <<reloj>>
                 /\ antes.estado = "PAUSADO" =>
                        despues.duracion_total_segundos = antes.duracion_total_segundos
                 /\ antes.estado = "EN_PROGRESO" =>
                        \E t \in MasRecientes(actividades[s]) :
                            despues.duracion_total_segundos =
                                antes.duracion_total_segundos + SegundosEnteros(reloj - t)
      ]_vars

\* C3 witness: FIN accepted from PAUSADO, after the pause that added 1
C3_FinDesdePausado ==
    /\ respuesta = Response(200, "")
    /\ seguimientos[1].estado = "FINALIZADO"
    /\ seguimientos[1].duracion_total_segundos = 1
    /\ seguimientos[1].fecha_fin = <<2>>
    /\ Len(actividades[1]) = 3
    /\ actividades[1][1].timestamp = 0
    /\ actividades[1][2].tipo_evento = "PAUSA"
    /\ actividades[1][3].tipo_evento = "FIN"

\* C4: every accepted PAUSA or FIN that closes the interval opened by the last
\* INICIO or REANUDAR of the log adds that interval's whole seconds (from the
\* opening row's timestamp to the request's time), and no other accepted event
\* changes the duration: the duration is the sum of the closed intervals.
C4_SumaDeIntervalos ==
    [][\A s \in Seguimientos, e \in EventosEntrada, u \in Usuarios :
          (controlar_tiempo(s, e, u) /\ respuesta'.status = 200) =>
              LET log == actividades[s]
                  antes == seguimientos[s].duracion_total_segundos
                  despues == seguimientos'[s].duracion_total_segundos
              IN IF /\ Upper(e) \in {"PAUSA", "FIN"}
                    /\ log # <<>>
                    /\ log[Len(log)].tipo_evento \in {"INICIO", "REANUDAR"}
                 THEN despues = antes + SegundosEnteros(reloj - log[Len(log)].timestamp)
                 ELSE despues = antes
      ]_vars

\* C5: with no worker assigned, each of the four timer events is rejected with
\* "No hay trabajadores asignados a este subproceso." and no table changes.
C5_SinTrabajadores ==
    [][\A s \in Seguimientos, e \in EventosEntrada, u \in Usuarios :
          (/\ controlar_tiempo(s, e, u)
           /\ s \in existentes
           /\ trabajadores_asignados[s] = {}
           /\ Upper(e) \in TipoEvento) =>
              /\ respuesta' = Response(400, ErrSinTrabajadores)
              /\ UNCHANGED TablasDelSeguimiento
      ]_vars

\* C5 witness: the workers were taken away from a paused entity and an event was
\* then rejected for it
C5_VaciadoEnPausa ==
    /\ respuesta = Response(400, ErrSinTrabajadores)
    /\ trabajadores_asignados[1] = {}
    /\ seguimientos[1].estado = "PAUSADO"

\* C6: a timer-control or worker-assignment request that is rejected leaves every
\* table of the entity as it was.
C6_RechazoSinEscritura ==
    [][\A s \in Seguimientos :
          (/\ \/ \E e \in EventosEntrada, u \in Usuarios : controlar_tiempo(s, e, u)
              \/ \E l \in EntradasTrabajadores : asignar_trabajadores(s, l)
           /\ respuesta'.status # 200) =>
              UNCHANGED TablasDelSeguimiento
      ]_vars

\* C6 witness: an assignment that is not a list was rejected on an entity that has
\* workers, a log and attendance rows
C6_RechazoConDatos ==
    /\ respuesta = Response(400, ErrNoLista)
    /\ trabajadores_asignados[1] # {}
    /\ actividades[1] # <<>>
    /\ asistencias # EmptyBag

\* C7: no step lowers duracion_total_segundos.
C7_DuracionNoDecrece ==
    [][\A s \in Seguimientos :
          seguimientos'[s].duracion_total_segundos >= seguimientos[s].duracion_total_segundos
      ]_vars

\* C8: fecha_fin is set exactly when the state is FINALIZADO.
C8_FechaFinSiiFinalizado ==
    \A s \in existentes :
        (seguimientos[s].fecha_fin # NULL) <=> (seguimientos[s].estado = "FINALIZADO")

\* C9: an accepted timer event appends one row tagged with the event and the
\* acting user, a rejected one appends none, and nothing else changes a log.
C9_UnRegistroPorEvento ==
    [][\A s \in Seguimientos :
          /\ \A e \in EventosEntrada, u \in Usuarios :
                controlar_tiempo(s, e, u) =>
                    IF respuesta'.status = 200
                    THEN /\ Len(actividades'[s]) = Len(actividades[s]) + 1
                         /\ SubSeq(actividades'[s], 1, Len(actividades[s])) = actividades[s]
                         /\ actividades'[s][Len(actividades'[s])].tipo_evento = Upper(e)
                         /\ actividades'[s][Len(actividades'[s])].usuario = u
                    ELSE actividades'[s] = actividades[s]
          /\ actividades'[s] # actividades[s] =>
                \E e \in EventosEntrada, u \in Usuarios :
                    controlar_tiempo(s, e, u) /\ respuesta'.status = 200
      ]_vars

\* C9 witness: two events accepted from two users, then a PAUSA rejected
C9_DosUsuarios ==
    /\ respuesta = Response(400, ErrNoEnProgreso)
    /\ Len(actividades[1]) = 2
    /\ actividades[1][1].usuario = "ana"
    /\ actividades[1][2].usuario = "luis"
    /\ actividades[1][2].tipo_evento = "PAUSA"

\* C10: the timestamps of a log never go down in insertion order.
C10_RegistroOrdenado ==
    \A s \in existentes :
        \A i \in 1..Len(actividades[s]), j \in 1..Len(actividades[s]) :
            i < j => actividades[s][i].timestamp <= actividades[s][j].timestamp

\* C11: once an entity is FINALIZADO it stays: no later INICIO, PAUSA, REANUDAR or
\* FIN is accepted for it, and its state, fecha_fin and duration are the same in
\* every later state (and the entity is still there).
C11_FinalizadoTerminal ==
    [][\A s \in Seguimientos :
          (s \in existentes /\ seguimientos[s].estado = "FINALIZADO") =>
              /\ s \in existentes'
              /\ seguimientos'[s].estado = "FINALIZADO"
              /\ seguimientos'[s].fecha_fin = seguimientos[s].fecha_fin
              /\ seguimientos'[s].duracion_total_segundos =
                     seguimientos[s].duracion_total_segundos
              /\ \A e \in EventosEntrada, u \in Usuarios :
                     controlar_tiempo(s, e, u) => respuesta'.status # 200
      ]_vars

\* the ids of a request's list
IdsDe(l) == {l.ids[i] : i \in 1..Len(l.ids)}

\* C12: an accepted assignment with the list L leaves assigned exactly the existing
\* workers whose id is in L (a worker assigned before and absent from L is gone),
\* and a list with ids of no worker is accepted all the same.
C12_ReemplazoExacto ==
    [][\A s \in Seguimientos, l \in EntradasTrabajadores :
          (asignar_trabajadores(s, l) /\ s \in existentes /\ l.es_lista) =>
              /\ respuesta' = Response(200, "")
              /\ trabajadores_asignados'[s] = Trabajadores \cap IdsDe(l)
              /\ \A w \in trabajadores_asignados[s] :
                     w \notin IdsDe(l) => w \notin trabajadores_asignados'[s]
      ]_vars

\* C12 witness: an accepted assignment took away the worker who was assigned (and
\* has an attendance row) before any timer event
C12_TrabajadorRetirado ==
    /\ respuesta = Response(200, "")
    /\ trabajadores_asignados[1] = {}
    /\ actividades[1] = <<>>
    /\ asistencias # EmptyBag

\* the number of attendance rows of one (entity, worker, date)
FilasDeAsistencia(tabla, s, w, fecha) ==
    CopiesIn([seguimiento |-> s, trabajador |-> w, fecha |-> fecha, asistio |-> TRUE], tabla)
        + CopiesIn([seguimiento |-> s, trabajador |-> w, fecha |-> fecha, asistio |-> FALSE],
                   tabla)

\* C13: after an accepted assignment every worker now assigned has exactly one
\* attendance row for (the entity, the worker, today), with asistio true; and no
\* state holds two rows of one (entity, worker, date).
C13_UnaAsistenciaPorDia ==
    [][/\ \A s \in Seguimientos, l \in EntradasTrabajadores :
             (asignar_trabajadores(s, l) /\ respuesta'.status = 200) =>
                 \A w \in trabajadores_asignados'[s] :
                     /\ FilasDeAsistencia(asistencias', s, w, Fecha(reloj)) = 1
                     /\ CopiesIn([seguimiento |-> s, trabajador |-> w,
                                  fecha |-> Fecha(reloj), asistio |-> TRUE],
                                 asistencias') = 1
       /\ \A f \in BagToSet(asistencias') :
             FilasDeAsistencia(asistencias', f.seguimiento, f.trabajador, f.fecha) = 1
      ]_vars

\* C13 witness: the worker was assigned on two days and holds one row for each
C13_DosDias ==
    /\ respuesta = Response(200, "")
    /\ trabajadores_asignados[1] = {1}
    /\ FilasDeAsistencia(asistencias, 1, 1, 0) = 1
    /\ FilasDeAsistencia(asistencias, 1, 1, 1) = 1
    /\ Fecha(reloj) = 1

\* C14: an assignment whose trabajadores_ids is not a list is rejected with
\* "Se espera una lista de IDs de trabajadores." and leaves the assigned workers and
\* the attendance rows as they were.
C14_NoListaRechazada ==
    [][\A s \in Seguimientos, l \in EntradasTrabajadores :
          (asignar_trabajadores(s, l) /\ s \in existentes /\ ~l.es_lista) =>
              /\ respuesta' = Response(400, ErrNoLista)
              /\ trabajadores_asignados' = trabajadores_asignados
              /\ asistencias' = asistencias
      ]_vars

\* C14 witness: the rejected request came to an entity with a worker assigned on
\* two days, before any timer event
C14_NoListaConAsignados ==
    /\ respuesta = Response(400, ErrNoLista)
    /\ trabajadores_asignados[1] = {1}
    /\ BagCardinality(asistencias) = 2
    /\ actividades[1] = <<>>

\* C15: a timer request whose evento is none of INICIO, PAUSA, REANUDAR, FIN is
\* answered 400 "Evento no valido..." whatever the state of the entity, and
\* changes neither the entity nor its log.
C15_EventoDesconocido ==
    [][\A s \in Seguimientos, e \in EventosEntrada, u \in Usuarios :
          (controlar_tiempo(s, e, u) /\ s \in existentes /\ Upper(e) \notin TipoEvento) =>
              /\ respuesta' = Response(400, ErrEventoNoValido)
              /\ seguimientos' = seguimientos
              /\ actividades' = actividades
      ]_vars

\* two PAUSA requests, both answered 200, that read the same row of the entity and
\* the same most recent row of the log
DosPausas(c, d) ==
    /\ c # d
    /\ peticiones[c].pc = "hecho" /\ peticiones[d].pc = "hecho"
    /\ peticiones[c].evento = "PAUSA" /\ peticiones[d].evento = "PAUSA"
    /\ peticiones[c].pk = peticiones[d].pk
    /\ peticiones[c].leido = peticiones[d].leido
    /\ peticiones[c].ultima_actividad = peticiones[d].ultima_actividad

\* what the request of connection c alone brings the duration to
DuracionSerie(c) ==
    peticiones[c].leido.duracion_total_segundos
        + SegundosEnteros(peticiones[c].now - peticiones[c].ultima_actividad[1].timestamp)

\* C16 as stated: after two overlapping PAUSA requests that read the same most
\* recent row and were both accepted, the duration counts the interval twice or
\* otherwise differs from what either serial order of the two requests leaves.
C16_DuracionCorrompida ==
    \A c \in Conexiones, d \in Conexiones :
        DosPausas(c, d) =>
            seguimientos[peticiones[c].pk].duracion_total_segundos
                \notin {DuracionSerie(c), DuracionSerie(d)}

\* C16 amended: two overlapping PAUSA requests can read the same most recent row
\* and both be accepted, each adding a PAUSA row to the log; the duration left is
\* the one of the request that saved last, the interval counted once: it is what
\* the serial order that runs one of the two requests first leaves.
C16_PausasSolapadas ==
    \A c \in Conexiones, d \in Conexiones :
        DosPausas(c, d) =>
            LET s == peticiones[c].pk
                log == actividades[s]
            IN /\ seguimientos[s].estado = "PAUSADO"
               /\ seguimientos[s].duracion_total_segundos
                      \in {DuracionSerie(c), DuracionSerie(d)}
               /\ Cardinality({i \in 1..Len(log) : log[i].tipo_evento = "PAUSA"}) >= 2

\* C16 witness: INICIO logged at tick 0, two PAUSA requests read it one second
\* later, both are accepted, and the duration is 1
C16_DosPausasAceptadas ==
    /\ DosPausas("c1", "c2")
    /\ peticiones["c1"].ultima_actividad = <<actividades[1][1]>>
    /\ actividades[1][1].timestamp = 0
    /\ DuracionSerie("c1") = 1
    /\ DuracionSerie("c2") = 1
    /\ Len(actividades[1]) = 3
    /\ seguimientos[1].duracion_total_segundos = 1

\* C17: an entity is never removed, and its state, dates and duration change only
\* in a control-tiempo step; its log only grows.
C17_SoloDosOperaciones ==
    [][\A s \in Seguimientos :
          s \in existentes =>
              /\ s \in existentes'
              /\ seguimientos'[s] # seguimientos[s] =>
                     \E e \in EventosEntrada, u \in Usuarios : controlar_tiempo(s, e, u)
              /\ Len(actividades'[s]) >= Len(actividades[s])
              /\ SubSeq(actividades'[s], 1, Len(actividades[s])) = actividades[s]
      ]_vars

\* the states an event is accepted in
EstadosRequeridos(ev) ==
    {h \in EstadoSeguimiento : \E g \in EstadoSeguimiento : <<ev, h, g>> \in TablaDeTransiciones}

\* everything the tables hold of one entity
DatosDe(s) ==
    <<s \in existentes, seguimientos[s], trabajadores_asignados[s], actividades[s],
      {f \in BagToSet(asistencias) : f.seguimiento = s},
      [f \in {g \in BagToSet(asistencias) : g.seguimiento = s} |-> asistencias[f]]>>

\* C18: a control-tiempo or asignar-trabajadores request on one entity, whole or
\* one database operation at a time among the operations of requests on other
\* entities, accepted or rejected, leaves state, dates, duration, assigned
\* workers, log and attendance rows of every other entity as they were: no step
\* that changes what the tables hold of s is a step of a request on another t.
C18_EntidadesIndependientes ==
    [][\A t \in DosSeguimientos, s \in DosSeguimientos :
          (/\ s # t
           /\ DatosDe(s)' # DatosDe(s)) =>
              ~ \/ \E e \in EventosEntrada, u \in Usuarios : controlar_tiempo(t, e, u)
                \/ \E l \in EntradasTrabajadores : asignar_trabajadores(t, l)
                \/ \E c \in Conexiones, e \in EventosEntrada, u \in Usuarios :
                       recibir(c, t, e, u)
                \/ \E c \in Conexiones :
                       /\ peticiones[c].pk = t
                       /\ calcular(c) \/ registrar(c) \/ guardar(c)
      ]_vars

\* C18 witness: entity 2 is paused with its worker and its attendance row while a
\* request on entity 1 has just been accepted and another is between its
\* operations
C18_DosEnMarcha ==
    /\ seguimientos[2].estado = "PAUSADO"
    /\ trabajadores_asignados[2] = {1}
    /\ FilasDeAsistencia(asistencias, 2, 1, 0) = 1
    /\ FilasDeAsistencia(asistencias, 1, 1, 0) = 1
    /\ seguimientos[1].estado = "EN_PROGRESO"
    /\ respuesta = Response(200, "")
    /\ \E c \in Conexiones : peticiones[c].pk = 1 /\ peticiones[c].pc = "registrado"

\* C19: a timer event rejected because of the state of the entity is answered with
\* an error that names the state the entity is in and the states the event needs.
C19_ErrorNombraEstados ==
    [][\A s \in Seguimientos, e \in EventosEntrada, u \in Usuarios :
          (/\ controlar_tiempo(s, e, u)
           /\ s \in existentes
           /\ trabajadores_asignados[s] # {}
           /\ Upper(e) \in TipoEvento
           /\ seguimientos[s].estado \notin EstadosRequeridos(Upper(e))) =>
              /\ respuesta'.status = 400
              /\ seguimientos[s].estado \in EstadosNombrados(respuesta'.error)
              /\ EstadosRequeridos(Upper(e)) \subseteq EstadosNombrados(respuesta'.error)
      ]_vars

\* the rows of the order o with their counts
FilasDe(tabla, o) == [f \in ItemsDe(tabla, o) |-> tabla[f]]

\* a checkout step: a cart with a row becomes PROCESADA with the lot `lote(c, l)`
\* and its user is left without a cart, an empty cart is answered "El carrito esta
\* vacio." and stays (or is created) a CARRITO; and in any step an order that is
\* PROCESADA keeps its row and its items, so that what a step changes is a cart
\* or a new order
Checkout(lote(_, _)) ==
    /\ \A u \in Usuarios, l \in EntradasLote :
          procesar_pedido(u, l) =>
              LET antes == CarritosDe(ordenes, u)
              IN IF \E c \in antes : ItemsDe(items, c) # {}
                 THEN \A c \in antes :
                          /\ respuesta' = Response(200, "")
                          /\ ordenes'[c].estado = "PROCESADA"
                          /\ lote(ordenes'[c], l)
                          /\ ordenes'[c].usuario = u
                          /\ FilasDe(items', c) = FilasDe(items, c)
                          /\ CarritosDe(ordenes', u) = {}
                 ELSE /\ respuesta' = Response(400, ErrCarritoVacio)
                      /\ \A c \in antes : ordenes'[c] = ordenes[c]
                      /\ CarritosDe(ordenes', u) # {}
                      /\ items' = items
    /\ \A o \in 1..Len(ordenes) :
          ordenes[o].estado = "PROCESADA" =>
              /\ ordenes'[o] = ordenes[o]
              /\ FilasDe(items', o) = FilasDe(items, o)
    /\ \A f \in BagToSet(items') :
          (f \notin BagToSet(items) \/ items'[f] # items[f]) =>
              /\ ordenes'[f.orden].estado = "CARRITO"
              /\ f.orden <= Len(ordenes) => ordenes[f.orden].estado = "CARRITO"

\* C20 as stated: the checkout of a cart with a row leaves it PROCESADA with a lot
\* code assigned; the checkout of an empty cart is rejected and the order stays a
\* CARRITO; a PROCESADA order is never changed again, the later cart operations of
\* its user acting on another order.
C20_ProcesarPedido ==
    [][Checkout(LAMBDA orden, l : orden.lote_asignado # NULL)]_vars

\* C20 amended: the same, the lot assigned being the 'lote' of the request when
\* the request carries the key (null included, which leaves the processed order
\* without a lot code) and LOTE-<codigo_orden> when it does not.
C20_ProcesarPedidoConLote ==
    [][Checkout(LAMBDA orden, l :
                    orden.lote_asignado =
                        IF l.presente THEN l.valor
                        ELSE <<LotePorDefecto(orden.codigo_orden)>>)]_vars

\* C20 witness: ana's first order was processed with its row and the default lot,
\* and her later add went to a second order
C20_CarritoNuevoTrasProcesar ==
    /\ Len(ordenes) >= 2
    /\ ordenes[1].usuario = "ana" /\ ordenes[1].estado = "PROCESADA"
    /\ ordenes[1].lote_asignado = <<"LOTE-ORD-0A1B2C3D">>
    /\ ItemsDe(items, 1) = {[orden |-> 1, producto |-> 1, cantidad |-> 2]}
    /\ ordenes[2].usuario = "ana" /\ ordenes[2].estado = "CARRITO"
    /\ ItemsDe(items, 2) = {[orden |-> 2, producto |-> 1, cantidad |-> 1]}
    /\ respuesta = Response(201, "")

\* the rows of a table are one per order and product, each with a quantity of
\* one or more
UnaFilaPorProducto(tabla) ==
    \A f \in BagToSet(tabla) :
        /\ f.cantidad >= 1
        /\ tabla[f] = 1
        /\ ItemsDeProducto(tabla, f.orden, f.producto) = {f}

\* C21: an add of a product already in the cart adds the quantity to its row; an
\* add with a quantity of zero or less is answered 400 and changes nothing; an
\* update to a positive quantity sets the row to it and an update to zero removes
\* the row; and after every step each row has a quantity of one or more and no
\* order holds two rows of one product.
C21_UnaFilaPorProducto ==
    [][/\ UnaFilaPorProducto(items')
       /\ \A u \in Usuarios, p \in IdsProducto, n \in {m \in Cantidades : m <= 0} :
             agregar_item(u, p, n) =>
                 /\ respuesta' = Response(400, ErrItemInvalido)
                 /\ UNCHANGED carrito
       /\ \A u \in Usuarios :
             \A c \in CarritosDe(ordenes, u) :
                 \A f \in ItemsDe(items, c) :
                     \A n \in Cantidades :
                         /\ (n > 0 /\ agregar_item(u, f.producto, n)) =>
                                /\ respuesta' = Response(201, "")
                                /\ ItemsDeProducto(items', c, f.producto) =
                                       {[f EXCEPT !.cantidad = f.cantidad + n]}
                         /\ actualizar_item(u, c, f.producto, n) =>
                                /\ respuesta' = Response(200, "")
                                /\ n > 0 =>
                                       ItemsDeProducto(items', c, f.producto) =
                                           {[f EXCEPT !.cantidad = n]}
                                /\ n = 0 => ItemsDeProducto(items', c, f.producto) = {}
      ]_vars

\* C21 witness: an add of quantity zero or less has just been rejected on a cart
\* whose row was grown to two by a second add or set by an update
C21_AgregarCeroRechazado ==
    /\ respuesta = Response(400, ErrItemInvalido)
    /\ Len(ordenes) = 1
    /\ ordenes[1].estado = "CARRITO"
    /\ BagToSet(items) = {[orden |-> 1, producto |-> 1, cantidad |-> 2]}

\* C25: an assignment with a list is accepted whatever the state of the entity,
\* FINALIZADO included; it leaves the state, the dates, the duration and the log of
\* the entity as they were, and every attendance row there was, those of workers
\* no longer assigned included, is still there with asistio true.
C25_AsignarSoloTrabajadores ==
    [][\A s \in Seguimientos, l \in EntradasTrabajadores :
          (asignar_trabajadores(s, l) /\ s \in existentes /\ l.es_lista) =>
              /\ respuesta' = Response(200, "")
              /\ seguimientos' = seguimientos
              /\ actividades' = actividades
              /\ existentes' = existentes
              /\ \A f \in BagToSet(asistencias) :
                     /\ f.asistio
                     /\ CopiesIn(f, asistencias') = CopiesIn(f, asistencias)
      ]_vars

\* C25 witness: the worker was taken away from a FINALIZADO entity, whose log and
\* end date stand, and the attendance row of the worker is still there
C25_RetiradoTrasFinalizar ==
    /\ respuesta = Response(200, "")
    /\ seguimientos[1].estado = "FINALIZADO"
    /\ seguimientos[1].fecha_fin # NULL
    /\ trabajadores_asignados[1] = {}
    /\ Len(actividades[1]) >= 2
    /\ actividades[1][Len(actividades[1])].tipo_evento = "FIN"
    /\ \E f \in BagToSet(asistencias) :
           f.seguimiento = 1 /\ f.trabajador = 1 /\ f.asistio

\* C22: a PAUSA, or a FIN on an EN_PROGRESO entity, that finds no row in the log
\* of the entity ends in an internal error (status 500), not in an elapsed time of
\* zero: the state, the dates and the duration of the entity stay as they were and
\* no row is added to the log.
C22_SinRegistroPrevio ==
    [][\A s \in Seguimientos :
          (/\ s \in existentes
           /\ trabajadores_asignados[s] # {}
           /\ seguimientos[s].estado = "EN_PROGRESO"
           /\ actividades[s] = <<>>) =>
              \A e \in EventosEntrada \ {EventoNulo}, u \in Usuarios :
                  (Upper(e) \in {"PAUSA", "FIN"} /\ controlar_tiempo(s, e, u)) =>
                      /\ respuesta' = Response(500, ErrInterno)
                      /\ seguimientos' = seguimientos
                      /\ actividades' = actividades
                      /\ UNCHANGED TablasDelSeguimiento
      ]_vars

\* C22 witness: the request has just failed on an entity that is EN_PROGRESO, has
\* a worker and an empty log
C22_FalloSinRegistro ==
    /\ respuesta = Response(500, ErrInterno)
    /\ 1 \in existentes
    /\ seguimientos[1].estado = "EN_PROGRESO"
    /\ trabajadores_asignados[1] # {}
    /\ actividades[1] = <<>>

\* the most recent row of a log that is not empty: the row of greatest timestamp,
\* and of the rows that share it the one inserted last
MasReciente(log) ==
    LET maximos == {j \in 1..Len(log) :
                       \A k \in 1..Len(log) : log[k].timestamp <= log[j].timestamp}
    IN log[CHOOSE i \in maximos : \A j \in maximos : j <= i]

\* the state of an entity is the one its log gives, `reciente` being the most
\* recent row of a log: PENDIENTE with the empty log, EN_PROGRESO after INICIO or
\* REANUDAR, PAUSADO after PAUSA, FINALIZADO after FIN; INICIO is the first row
\* only and FIN the last row only
EstadoSegunRegistro(reciente(_)) ==
    \A s \in existentes :
        LET log == actividades[s]
            estado == seguimientos[s].estado
        IN /\ estado = "PENDIENTE" <=> log = <<>>
           /\ log # <<>> =>
                  LET tipo == reciente(log).tipo_evento
                  IN /\ estado = "EN_PROGRESO" <=> tipo \in {"INICIO", "REANUDAR"}
                     /\ estado = "PAUSADO" <=> tipo = "PAUSA"
                     /\ estado = "FINALIZADO" <=> tipo = "FIN"
           /\ \A i \in 1..Len(log) :
                  /\ log[i].tipo_evento = "INICIO" => i = 1
                  /\ log[i].tipo_evento = "FIN" => i = Len(log)
           /\ estado \in {"EN_PROGRESO", "PAUSADO"} => UltimaActividad(log) # <<>>

\* C24: after any sequence of timer and assignment requests handled one at a time
\* the state of an entity is the one its log gives by its most recent row (the row
\* the lookup of PAUSA and FIN returns), INICIO is the first row only and FIN the
\* last only, and the lookup of PAUSA and FIN never finds an empty log.
C24_EstadoSegunRegistro ==
    EstadoSegunRegistro(MasReciente)

\* C26: in every state each user has at most one order in state CARRITO, also
\* when two cart requests of the user run between the lookup of the cart and its
\* creation.
C26_UnCarritoPorUsuario ==
    \A u \in Usuarios : Cardinality(CarritosDe(ordenes, u)) <= 1

\* C23: the delete of a Subproceso row that a tracking entity refers to, asked of
\* the row itself, of its Proceso or of its Etapa, is refused and leaves every row
\* as it was; hence in every state the subproceso_actual of each tracking entity
\* is a Subproceso row that exists.
C23_SubprocesoProtegido ==
    [][/\ \A s \in existentes' : subproceso_actual'[s] \in subprocesos'
       /\ \A sp \in Subprocesos :
             (/\ Referencian({sp}) # {}
              /\ sp \in subprocesos
              /\ \/ delete_subproceso(sp)
                 \/ delete_proceso(ProcesoDe(sp))
                 \/ delete_etapa(EtapaDe(ProcesoDe(sp)))) =>
                 /\ respuesta' = Response(200, ErrProtegido)
                 /\ UNCHANGED flujo
                 /\ UNCHANGED tablas_produccion
      ]_vars

\* C23 witness: a delete has just been refused for the entity, which is timed and
\* refers to Subproceso 2 of Proceso 1, after Subproceso 1 was deleted
C23_BorradoRechazado ==
    /\ respuesta = Response(200, ErrProtegido)
    /\ 1 \in existentes
    /\ subproceso_actual[1] = 2
    /\ subprocesos = {2, 3}
    /\ procesos = Procesos
    /\ seguimientos[1].estado = "EN_PROGRESO"

====
